---- MODULE Spec2Model ----
(***************************************************************************)
(* osmium::io::Header (contrib/libosmium/osmium/io/header.hpp): the meta   *)
(* information of an OSM file: a vector of bounding boxes, the flag        *)
(* has_multiple_object_versions and the inherited osmium::Options map.     *)
(***************************************************************************)
EXTENDS Integers, Sequences, FiniteSets, TLC

\* ------------------------------------------------------------------ bounds
\* m_boxes never grows beyond MaxBoxes elements in the model
MaxBoxes == 3
\* longest vector handed to the setter boxes(const std::vector<Box>&)
MaxSetLen == 2
\* longest initializer list handed to Header(values)
MaxPairs == 3
\* longest chained expression h.f(..).g(..). ...
MaxChain == 3

\* ---------------------------------------------- osmium::Box (collaborator)
\* A box is invalid (default constructed) or has a bottom-left and a
\* top-right corner.  An invalid box carries no coordinates: they are 0 here.
MkBox(x1, y1, x2, y2) ==
    [valid |-> TRUE, minx |-> x1, miny |-> y1, maxx |-> x2, maxy |-> y2]

InvalidBox ==
    [valid |-> FALSE, minx |-> 0, miny |-> 0, maxx |-> 0, maxy |-> 0]

Min(a, b) == IF a <= b THEN a ELSE b
Max(a, b) == IF a >= b THEN a ELSE b

\* Box::extend(const Box&): extending by an invalid box is a no-op, extending
\* an invalid box by a valid one adopts it, otherwise the box grows.
extend(acc, b) ==
    IF ~b.valid THEN acc
    ELSE IF ~acc.valid THEN b
    ELSE MkBox(Min(acc.minx, b.minx), Min(acc.miny, b.miny),
               Max(acc.maxx, b.maxx), Max(acc.maxy, b.maxy))

\* The extents a box takes on the x axis: overlapping ([-1,1] and [0,2]),
\* nested ([2,2] in [0,2]) and disjoint ([-1,1] and [2,2]); and on the y axis.
XIntervals == {<<-1, 1>>, <<0, 2>>, <<2, 2>>}
YIntervals == {<<-1, 1>>, <<0, 2>>}

ValidBoxes == {MkBox(ix[1], iy[1], ix[2], iy[2]) : ix \in XIntervals, iy \in YIntervals}
Boxes == ValidBoxes \cup {InvalidBox}

BoxA == MkBox(-1, -1, 1, 1)
BoxB == MkBox(0, 0, 2, 2)
FewBoxes == {InvalidBox, BoxA, BoxB}

SeqsUpTo(S, n) == UNION {[1..k -> S] : k \in 0..n}

\* -------------------------------------------- osmium::Options (collaborator)
Keys == {"generator", "timestamp"}
Values == {"osmium", "osmosis"}
Pairs == Keys \X Values
NoValue == ""

KeysOf(values) == {values[i][1] : i \in DOMAIN values}
ValuesOf(values, k) == {values[i][2] : i \in {j \in DOMAIN values : values[j][1] = k}}

\* Options(values): a map holding every key of the list; which of the values
\* a repeated key keeps is the policy of the Options class.
Options(values) ==
    {m \in [KeysOf(values) -> Values] : \A k \in KeysOf(values) : m[k] \in ValuesOf(values, k)}

\* Options::get(key): the value, or the default ("") when the key is not set.
get(options, key) == IF key \in DOMAIN options THEN options[key] ELSE NoValue

\* ------------------------------------------------------------------ state
VARIABLES
    m_boxes,                        \* std::vector<osmium::Box> m_boxes
    m_has_multiple_object_versions, \* bool
    m_options,                      \* the inherited Options map
    call,                           \* the last call made and its arguments
    ret,                            \* what that call returned
    init_values,                    \* the list the Header was constructed from
    start,                          \* the Header when the current expression began
    chain                           \* the calls chained in the current expression

vars == <<m_boxes, m_has_multiple_object_versions, m_options, call, ret,
          init_values, start, chain>>

Call(op, box, boxes, value, key, values) ==
    [op |-> op, box |-> box, boxes |-> boxes, value |-> value, key |-> key, values |-> values]

NoArgs(op) == Call(op, InvalidBox, <<>>, FALSE, NoValue, <<>>)

Ret(kind, ref, box, boxes, value, str) ==
    [kind |-> kind, ref |-> ref, box |-> box, boxes |-> boxes, value |-> value, str |-> str]

RetNone == Ret("none", "none", InvalidBox, <<>>, FALSE, NoValue)
RetRef(r) == Ret("ref", r, InvalidBox, <<>>, FALSE, NoValue)
RetBox(b) == Ret("box", "none", b, <<>>, FALSE, NoValue)
RetBoxes(s) == Ret("boxes", "none", InvalidBox, s, FALSE, NoValue)
RetBool(v) == Ret("bool", "none", InvalidBox, <<>>, v, NoValue)
RetStr(s) == Ret("str", "none", InvalidBox, <<>>, FALSE, s)

Snapshot(boxes, flag, options) ==
    [m_boxes |-> boxes, m_has_multiple_object_versions |-> flag, m_options |-> options]

\* ------------------------------------------------------------ construction
\* Header() = default: member initialisers of m_boxes{} and the flag
Header_default ==
    /\ m_boxes = <<>>
    /\ m_has_multiple_object_versions = FALSE
    /\ m_options = <<>>
    /\ call = NoArgs("Header")
    /\ ret = RetNone
    /\ init_values = <<>>
    /\ start = Snapshot(<<>>, FALSE, <<>>)
    /\ chain = <<>>

\* the constructor without its base initialiser: Options() instead of Options(values)
Header_values_unforwarded(values) ==
    /\ m_boxes = <<>>
    /\ m_has_multiple_object_versions = FALSE
    /\ m_options = <<>>
    /\ call = Call("Header_values", InvalidBox, <<>>, FALSE, NoValue, values)
    /\ ret = RetNone
    /\ init_values = values
    /\ start = Snapshot(<<>>, FALSE, m_options)
    /\ chain = <<>>

\* Header(const std::initializer_list<value_type>& values) : Options(values)
Header_values(values) ==
    /\ m_boxes = <<>>
    /\ m_has_multiple_object_versions = FALSE
    /\ m_options \in Options(values)
    /\ call = Call("Header_values", InvalidBox, <<>>, FALSE, NoValue, values)
    /\ ret = RetNone
    /\ init_values = values
    /\ start = Snapshot(<<>>, FALSE, m_options)
    /\ chain = <<>>

\* ---------------------------------------------------------------- getters
\* m_boxes.back() in place of m_boxes.front()
box_back(boxes) == IF boxes = <<>> THEN InvalidBox ELSE boxes[Len(boxes)]

\* osmium::Box box() const
box(boxes) == IF boxes = <<>> THEN InvalidBox ELSE Head(boxes)

\* the loop leaving at the first invalid box
RECURSIVE joined_from_break(_, _, _)
joined_from_break(boxes, i, acc) ==
    IF i > Len(boxes) \/ ~boxes[i].valid THEN acc
    ELSE joined_from_break(boxes, i + 1, extend(acc, boxes[i]))

\* the loop assigning an invalid box to the accumulator instead of extending by it
RECURSIVE joined_from_assign(_, _, _)
joined_from_assign(boxes, i, acc) ==
    IF i > Len(boxes) THEN acc
    ELSE joined_from_assign(boxes, i + 1,
             IF boxes[i].valid THEN extend(acc, boxes[i]) ELSE boxes[i])

\* the range-for of joined_boxes(): box.extend(b) for the elements from i on
RECURSIVE joined_from(_, _, _)
joined_from(boxes, i, acc) ==
    IF i > Len(boxes) THEN acc
    ELSE joined_from(boxes, i + 1, extend(acc, boxes[i]))

\* the loop ending one element early
joined_boxes_short(boxes) ==
    joined_from(SubSeq(boxes, 1, Len(boxes) - 1), 1, InvalidBox)

\* the loop extending by the first two elements only
joined_boxes_two(boxes) ==
    joined_from(SubSeq(boxes, 1, Min(Len(boxes), 2)), 1, InvalidBox)

\* osmium::Box joined_boxes() const
joined_boxes(boxes) == joined_from(boxes, 1, InvalidBox)

Getter(c, r) ==
    /\ call' = c
    /\ ret' = r
    /\ UNCHANGED <<m_boxes, m_has_multiple_object_versions, m_options,
                   init_values, start, chain>>

GetBoxes == Getter(NoArgs("boxes"), RetBoxes(m_boxes))
GetBox == Getter(NoArgs("box"), RetBox(box(m_boxes)))
GetJoinedBoxes == Getter(NoArgs("joined_boxes"), RetBox(joined_boxes(m_boxes)))
GetHasMultipleObjectVersions ==
    Getter(NoArgs("has_multiple_object_versions"), RetBool(m_has_multiple_object_versions))
GetOption ==
    \E k \in Keys :
        Getter(Call("get", InvalidBox, <<>>, FALSE, k, <<>>), RetStr(get(m_options, k)))

\* the return type Header in place of Header&: the caller gets a copy
return_copy(self) == RetRef("temporary")

\* --------------------------------------------------------------- mutators
\* A mutator is called on self: "this" is the Header, "temporary" an unnamed
\* copy that is gone when the expression ends.  "return *this" with the return
\* type Header& hands back the object the call was made on.
return_this(self) == RetRef(self)

\* the setter inserting at the end instead of assigning
set_boxes_insert(self, boxes) ==
    /\ m_boxes' = IF self = "this" THEN m_boxes \o boxes ELSE m_boxes
    /\ call' = Call("set_boxes", InvalidBox, boxes, FALSE, NoValue, <<>>)
    /\ ret' = return_this(self)
    /\ UNCHANGED <<m_has_multiple_object_versions, m_options, init_values>>

\* Header& boxes(const std::vector<osmium::Box>& boxes) noexcept
set_boxes(self, boxes) ==
    /\ m_boxes' = IF self = "this" THEN boxes ELSE m_boxes
    /\ call' = Call("set_boxes", InvalidBox, boxes, FALSE, NoValue, <<>>)
    /\ ret' = return_this(self)
    /\ UNCHANGED <<m_has_multiple_object_versions, m_options, init_values>>

\* add_box dropping a box that is not valid
add_box_valid_only(self, b) ==
    /\ Len(m_boxes) < MaxBoxes
    /\ m_boxes' = IF self = "this" /\ b.valid THEN Append(m_boxes, b) ELSE m_boxes
    /\ call' = Call("add_box", b, <<>>, FALSE, NoValue, <<>>)
    /\ ret' = return_this(self)
    /\ UNCHANGED <<m_has_multiple_object_versions, m_options, init_values>>

\* Header& add_box(const osmium::Box& box)
add_box(self, b) ==
    /\ Len(m_boxes) < MaxBoxes
    /\ m_boxes' = IF self = "this" THEN Append(m_boxes, b) ELSE m_boxes
    /\ call' = Call("add_box", b, <<>>, FALSE, NoValue, <<>>)
    /\ ret' = return_this(self)
    /\ UNCHANGED <<m_has_multiple_object_versions, m_options, init_values>>

\* the setter storing true whatever its argument
set_has_multiple_object_versions_true(self, value) ==
    /\ m_has_multiple_object_versions' =
           IF self = "this" THEN TRUE ELSE m_has_multiple_object_versions
    /\ call' = Call("set_has_multiple_object_versions", InvalidBox, <<>>, value, NoValue, <<>>)
    /\ ret' = return_this(self)
    /\ UNCHANGED <<m_boxes, m_options, init_values>>

\* Header& set_has_multiple_object_versions(bool value) noexcept
set_has_multiple_object_versions(self, value) ==
    /\ m_has_multiple_object_versions' =
           IF self = "this" THEN value ELSE m_has_multiple_object_versions
    /\ call' = Call("set_has_multiple_object_versions", InvalidBox, <<>>, value, NoValue, <<>>)
    /\ ret' = return_this(self)
    /\ UNCHANGED <<m_boxes, m_options, init_values>>

\* ------------------------------------------- calls as separate statements
SetBoxes ==
    /\ \E s \in SeqsUpTo(FewBoxes, MaxSetLen) : set_boxes("this", s)
    /\ UNCHANGED <<start, chain>>

AddBox ==
    /\ \E b \in Boxes : add_box("this", b)
    /\ UNCHANGED <<start, chain>>

SetHasMultipleObjectVersions ==
    /\ \E v \in BOOLEAN : set_has_multiple_object_versions("this", v)
    /\ UNCHANGED <<start, chain>>

Init ==
    \/ Header_default
    \/ Header_values(<<<<"generator", "osmium">>, <<"generator", "osmosis">>>>)

Next ==
    \/ SetBoxes
    \/ AddBox
    \/ SetHasMultipleObjectVersions
    \/ GetBoxes
    \/ GetBox
    \/ GetJoinedBoxes
    \/ GetHasMultipleObjectVersions
    \/ GetOption

Spec == Init /\ [][Next]_vars

\* ------------------------------------------------- calls chained in one expression
\* The first call of an expression is made on the Header, every further call
\* on what the call before it returned.
Receiver == IF chain = <<>> THEN "this" ELSE ret.ref

ChainBoxes == {BoxA, BoxB}
ChainSetInputs == {<<BoxB, BoxA>>}

ChainSetBoxes ==
    /\ Len(chain) < MaxChain
    /\ \E s \in ChainSetInputs : set_boxes(Receiver, s)
    /\ chain' = Append(chain, call')
    /\ UNCHANGED start

ChainAddBox ==
    /\ Len(chain) < MaxChain
    /\ \E b \in ChainBoxes : add_box(Receiver, b)
    /\ chain' = Append(chain, call')
    /\ UNCHANGED start

ChainSetHasMultipleObjectVersions ==
    /\ Len(chain) < MaxChain
    /\ \E v \in BOOLEAN : set_has_multiple_object_versions(Receiver, v)
    /\ chain' = Append(chain, call')
    /\ UNCHANGED start

\* The expression ends (its temporaries are gone); the next one starts on the Header.
EndExpression ==
    /\ chain # <<>>
    /\ chain' = <<>>
    /\ start' = Snapshot(m_boxes, m_has_multiple_object_versions, m_options)
    /\ call' = NoArgs("end")
    /\ ret' = RetNone
    /\ UNCHANGED <<m_boxes, m_has_multiple_object_versions, m_options, init_values>>

NextChain ==
    \/ ChainSetBoxes
    \/ ChainAddBox
    \/ ChainSetHasMultipleObjectVersions
    \/ EndExpression

SpecChain == Header_default /\ [][NextChain]_vars

\* ------------------------------------------ construction from a key-value list
InitValues == \E values \in SeqsUpTo(Pairs, MaxPairs) : Header_values(values)

NextValues ==
    \/ GetOption
    \/ GetBoxes
    \/ GetHasMultipleObjectVersions
    \/ SetHasMultipleObjectVersions

SpecValues == InitValues /\ [][NextValues]_vars

\* ================================================================== claims
Flag == m_has_multiple_object_versions
AllInvalid(boxes) == \A i \in DOMAIN boxes : ~boxes[i].valid
ValidIn(boxes) == {boxes[i] : i \in {j \in DOMAIN boxes : boxes[j].valid}}

\* The left-to-right fold of extend over B from a default (invalid) box, by
\* its defining equations: fold(<<>>) = invalid, fold(B o <<b>>) = extend(fold(B), b).
RECURSIVE ExtendFold(_)
ExtendFold(B) ==
    IF B = <<>> THEN InvalidBox
    ELSE extend(ExtendFold(SubSeq(B, 1, Len(B) - 1)), B[Len(B)])

\* C1: for every box sequence the Header holds, joined_boxes() is the
\* left-to-right fold of extend from an invalid box, and it is invalid exactly
\* when the sequence is empty or holds only invalid boxes.
C1_JoinedIsFold ==
    /\ joined_boxes(m_boxes) = ExtendFold(m_boxes)
    /\ (~joined_boxes(m_boxes).valid) <=> AllInvalid(m_boxes)
    /\ call.op = "joined_boxes" =>
           /\ ret.box = ExtendFold(m_boxes)
           /\ (~ret.box.valid) <=> AllInvalid(m_boxes)

C1_Witness ==
    /\ call.op = "joined_boxes"
    /\ Len(m_boxes) = 3
    /\ ~m_boxes[1].valid /\ m_boxes[2].valid /\ m_boxes[3].valid
    /\ m_boxes[2] # m_boxes[3]
    /\ ret.box.valid
    /\ ret.box \notin {m_boxes[2], m_boxes[3]}

\* C2: box() returns the first element of the sequence, valid or not and
\* whatever follows it, and an invalid box when the sequence is empty; on an
\* empty Header box() and joined_boxes() are both invalid.
C2_BoxIsFirst ==
    /\ call.op = "box" =>
           ret.box = (IF Len(m_boxes) = 0 THEN InvalidBox ELSE m_boxes[1])
    /\ Len(m_boxes) = 0 => ~box(m_boxes).valid /\ ~joined_boxes(m_boxes).valid

C2_Witness ==
    /\ call.op = "box"
    /\ Len(m_boxes) = 3
    /\ ~m_boxes[1].valid /\ m_boxes[2].valid
    /\ ret.box = m_boxes[1]
    /\ joined_boxes(m_boxes).valid

\* C3: add_box(b) appends b: the elements before it keep value and position,
\* the length grows by one, nothing is filtered or deduplicated, and the flag
\* and the options are unchanged.
C3_AddBoxAppends ==
    [][call'.op = "add_box" =>
           /\ m_boxes' = Append(m_boxes, call'.box)
           /\ Len(m_boxes') = Len(m_boxes) + 1
           /\ \A i \in 1..Len(m_boxes) : m_boxes'[i] = m_boxes[i]
           /\ m_boxes'[Len(m_boxes')] = call'.box
           /\ m_has_multiple_object_versions' = m_has_multiple_object_versions
           /\ m_options' = m_options]_vars

C3_Witness ==
    /\ call.op = "add_box"
    /\ ~call.box.valid
    /\ Len(m_boxes) = 3
    /\ m_boxes[3] = call.box
    /\ m_boxes[2] = m_boxes[3]
    /\ m_boxes[1] = BoxA
    /\ Flag
    /\ m_options # <<>>

\* C4: set_boxes(S) makes the sequence exactly S, whatever it held before,
\* and leaves the flag and the options unchanged; boxes() returns the sequence.
C4_SetBoxesReplaces ==
    /\ [](call.op = "boxes" => ret.boxes = m_boxes)
    /\ [][call'.op = "set_boxes" =>
              /\ m_boxes' = call'.boxes
              /\ m_has_multiple_object_versions' = m_has_multiple_object_versions
              /\ m_options' = m_options]_vars

C4_Witness ==
    /\ call.op = "set_boxes"
    /\ call.boxes = <<>>
    /\ m_boxes = <<>>
    /\ Flag
    /\ m_options # <<>>

\* C5: a constructed Header has the flag false; the setter makes the getter
\* return its argument until the setter is called again, and changes neither
\* the boxes, box(), joined_boxes() nor the options; no other call changes the flag.
C5_Flag ==
    /\ [](/\ call.op \in {"Header", "Header_values"} => ~m_has_multiple_object_versions
          /\ call.op = "has_multiple_object_versions" =>
                 ret.value = m_has_multiple_object_versions)
    /\ [][/\ call'.op = "set_has_multiple_object_versions" =>
                 /\ m_has_multiple_object_versions' = call'.value
                 /\ m_boxes' = m_boxes
                 /\ box(m_boxes') = box(m_boxes)
                 /\ joined_boxes(m_boxes') = joined_boxes(m_boxes)
                 /\ m_options' = m_options
          /\ call'.op # "set_has_multiple_object_versions" =>
                 m_has_multiple_object_versions' = m_has_multiple_object_versions]_vars

C5_Witness ==
    /\ call.op = "set_has_multiple_object_versions"
    /\ ~call.value
    /\ ~Flag
    /\ Len(m_boxes) = 2
    /\ m_options # <<>>

\* C6 (as stated): a Header constructed from the list L returns, for every
\* pair of L, that pair's value when the pair's key is read back.
C6_EveryPairReadBack ==
    call.op = "get" =>
        \A i \in DOMAIN init_values :
            init_values[i][1] = call.key => ret.str = init_values[i][2]

\* C6 (amended): a Header constructed from the list L returns, for every key
\* of L, a value that L pairs with that key (the corresponding value when the
\* key has one value in L), and has an empty box sequence and the flag false.
C6_KeyReadBack ==
    /\ call.op = "get" /\ call.key \in KeysOf(init_values) =>
           ret.str \in ValuesOf(init_values, call.key)
    /\ call.op = "Header_values" =>
           /\ m_boxes = <<>>
           /\ ~m_has_multiple_object_versions
           /\ \A k \in KeysOf(init_values) :
                  get(m_options, k) \in ValuesOf(init_values, k)

C6_Witness ==
    /\ call.op = "get"
    /\ Len(init_values) = 3
    /\ init_values[1][1] = call.key
    /\ init_values[3][1] = call.key
    /\ init_values[2][1] # call.key
    /\ init_values[1][2] # init_values[3][2]
    /\ ret.str \in {init_values[1][2], init_values[3][2]}

\* The calls of a chain made one by one, as separate statements, on h.
Separately(h, c) ==
    CASE c.op = "add_box" -> [h EXCEPT !.m_boxes = Append(@, c.box)]
      [] c.op = "set_boxes" -> [h EXCEPT !.m_boxes = c.boxes]
      [] c.op = "set_has_multiple_object_versions" ->
             [h EXCEPT !.m_has_multiple_object_versions = c.value]

RECURSIVE AllSeparately(_, _)
AllSeparately(h, cs) ==
    IF cs = <<>> THEN h
    ELSE Separately(AllSeparately(h, SubSeq(cs, 1, Len(cs) - 1)), cs[Len(cs)])

\* C7: every mutator returns the Header it was called on, so a chained
\* expression leaves the Header in the state the same calls made separately,
\* in the same order, leave it in.
C7_ChainIsSeparateCalls ==
    /\ chain # <<>> => ret = RetRef("this")
    /\ Snapshot(m_boxes, m_has_multiple_object_versions, m_options)
           = AllSeparately(start, chain)

C7_Witness ==
    /\ Len(chain) = 3
    /\ chain[1].op = "add_box" /\ chain[1].box = BoxA
    /\ chain[2].op = "add_box" /\ chain[2].box = BoxB
    /\ chain[3].op = "set_has_multiple_object_versions" /\ chain[3].value
    /\ start.m_boxes = <<BoxB>>
    /\ ~start.m_has_multiple_object_versions
    /\ m_boxes = <<BoxB, BoxA, BoxB>>
    /\ Flag

Permuted(boxes, p) == [i \in DOMAIN boxes |-> boxes[p[i]]]

\* C8: joined_boxes() is the same for every permutation of the box sequence.
C8_OrderIndependent ==
    \A p \in Permutations(DOMAIN m_boxes) :
        joined_boxes(Permuted(m_boxes, p)) = joined_boxes(m_boxes)

C8_Witness ==
    /\ Len(m_boxes) = 3
    /\ m_boxes[1].valid /\ ~m_boxes[2].valid /\ m_boxes[3].valid
    /\ m_boxes[1] # m_boxes[3]
    /\ joined_boxes(m_boxes) \notin {m_boxes[1], m_boxes[3]}
    /\ \E p \in Permutations(DOMAIN m_boxes) :
           box(Permuted(m_boxes, p)) # box(m_boxes)

\* C9: with a valid box in the sequence, joined_boxes() is valid, contains
\* every valid box of the sequence, and takes each of its four bounds from
\* a valid box of the sequence; [(-1,-1),(1,1)] then [(0,0),(2,2)] give
\* [(-1,-1),(2,2)] while box() is the first box.
C9_MinimumEnclosingBox ==
    LET J == joined_boxes(m_boxes)
        V == ValidIn(m_boxes)
    IN  /\ V # {} =>
               /\ J.valid
               /\ \A b \in V : /\ J.minx <= b.minx /\ J.miny <= b.miny
                               /\ J.maxx >= b.maxx /\ J.maxy >= b.maxy
               /\ \E b \in V : J.minx = b.minx
               /\ \E b \in V : J.miny = b.miny
               /\ \E b \in V : J.maxx = b.maxx
               /\ \E b \in V : J.maxy = b.maxy
        /\ m_boxes = <<BoxA, BoxB>> =>
               /\ J = MkBox(-1, -1, 2, 2)
               /\ box(m_boxes) = BoxA
        /\ call.op = "joined_boxes" => ret.box = J

C9_Witness ==
    /\ m_boxes = <<BoxA, BoxB>>
    /\ call.op = "joined_boxes"
    /\ ret.box = MkBox(-1, -1, 2, 2)

\* C10: add_box of an invalid box leaves joined_boxes() unchanged (the
\* sequence grows by one, and box() becomes that box if the sequence was
\* empty); add_box of a valid box to an empty or all-invalid sequence makes
\* joined_boxes() that box.
C10_InvalidIsIdentity ==
    [][call'.op = "add_box" =>
           /\ ~call'.box.valid =>
                  /\ joined_boxes(m_boxes') = joined_boxes(m_boxes)
                  /\ Len(m_boxes') = Len(m_boxes) + 1
                  /\ m_boxes = <<>> => box(m_boxes') = call'.box
           /\ call'.box.valid /\ AllInvalid(m_boxes) =>
                  joined_boxes(m_boxes') = call'.box]_vars

C10_Witness ==
    /\ call.op = "add_box"
    /\ ~call.box.valid
    /\ Len(m_boxes) = 3
    /\ m_boxes[1].valid /\ m_boxes[2].valid
    /\ joined_boxes(m_boxes) \notin {m_boxes[1], m_boxes[2]}

====
